---- MODULE Spec2Model ----
\* State-machine model of databricks-app-v1/streamlit_app.py: the Streamlit
\* script that lets a user pick one of nine Yahoo-Finance tools, collect its
\* parameters, run the tool's fetch operation through run_async and render
\* the returned payload.
EXTENDS Integers, Sequences, FiniteSets, TLC

\* ---------------------------------------------------------------- bounds
\* Longest provider payload, in characters, that Spec enumerates in full.
MaxLen == 1
\* Longest provider payload, in characters, that PayloadSpec enumerates.
MaxPayloadLen == 5

\* ------------------------------------------------------------ tool table
tool_options ==
  << "get_historical_stock_prices", "get_stock_info", "get_yahoo_finance_news",
     "get_stock_actions", "get_financial_statement", "get_holder_info",
     "get_option_expiration_dates", "get_option_chain", "get_recommendations" >>

Range(s) == { s[i] : i \in DOMAIN s }

ToolIds == Range(tool_options)

\* Keys of the description table (the texts themselves are display only).
tool_descriptions ==
  [ t \in { "get_historical_stock_prices", "get_stock_info",
            "get_yahoo_finance_news", "get_stock_actions",
            "get_financial_statement", "get_holder_info",
            "get_option_expiration_dates", "get_option_chain",
            "get_recommendations" } |-> "description" ]

\* ------------------------------------------------------- widget options
PeriodOptions ==
  << "1d", "5d", "1mo", "3mo", "6mo", "1y", "2y", "5y", "10y", "ytd", "max" >>
IntervalOptions ==
  << "1m", "2m", "5m", "15m", "30m", "60m", "90m", "1h", "1d", "5d", "1wk",
     "1mo", "3mo" >>
FinancialTypeOptions ==
  << "income_stmt", "quarterly_income_stmt", "balance_sheet",
     "quarterly_balance_sheet", "cashflow", "quarterly_cashflow" >>
HolderTypeOptions ==
  << "major_holders", "institutional_holders", "mutualfund_holders",
     "insider_transactions", "insider_purchases", "insider_roster_holders" >>
OptionTypeOptions == << "calls", "puts" >>
RecommendationTypeOptions == << "recommendations", "upgrades_downgrades" >>

PeriodDefaultIndex == 3
IntervalDefaultIndex == 9
MonthsBackMin == 1
MonthsBackMax == 60
MonthsBackDefault == 12

DefaultTicker == "AAPL"
DefaultExpirationDate == "2025-12-19"

\* What a user types into the two free-text inputs and the number input.
TickerInputs == { "", "AAPL" }
ExpirationDateInputs == { "2025-12-19", "2099-01-01" }
MonthsBackInputs == { 0, 1, 12, 60, 61 }

\* Allowed set of every single-choice parameter.
AllowedChoices ==
  [ period |-> Range(PeriodOptions),
    interval |-> Range(IntervalOptions),
    financial_type |-> Range(FinancialTypeOptions),
    holder_type |-> Range(HolderTypeOptions),
    option_type |-> Range(OptionTypeOptions),
    recommendation_type |-> Range(RecommendationTypeOptions) ]

\* Faulty variant of ParamWidgets: the option-chain branch forgets the
\* option_type selectbox.
ParamWidgetsNoOptionType(tool) ==
  CASE tool = "get_historical_stock_prices" ->
         [ period |-> PeriodOptions[PeriodDefaultIndex],
           interval |-> IntervalOptions[IntervalDefaultIndex] ]
    [] tool = "get_financial_statement" ->
         [ financial_type |-> FinancialTypeOptions[1] ]
    [] tool = "get_holder_info" ->
         [ holder_type |-> HolderTypeOptions[1] ]
    [] tool = "get_option_chain" ->
         [ expiration_date |-> DefaultExpirationDate ]
    [] tool = "get_recommendations" ->
         [ recommendation_type |-> RecommendationTypeOptions[1],
           months_back |-> MonthsBackDefault ]
    [] OTHER -> [ n \in {} |-> "" ]

\* The tool-specific inputs rendered for a tool, at their initial values
\* (a widget that was not rendered in the previous run starts at its default).
ParamWidgets(tool) ==
  CASE tool = "get_historical_stock_prices" ->
         [ period |-> PeriodOptions[PeriodDefaultIndex],
           interval |-> IntervalOptions[IntervalDefaultIndex] ]
    [] tool = "get_financial_statement" ->
         [ financial_type |-> FinancialTypeOptions[1] ]
    [] tool = "get_holder_info" ->
         [ holder_type |-> HolderTypeOptions[1] ]
    [] tool = "get_option_chain" ->
         [ expiration_date |-> DefaultExpirationDate,
           option_type |-> OptionTypeOptions[1] ]
    [] tool = "get_recommendations" ->
         [ recommendation_type |-> RecommendationTypeOptions[1],
           months_back |-> MonthsBackDefault ]
    [] OTHER -> [ n \in {} |-> "" ]

\* Faulty variant of NumberInput: no min_value and max_value.
NumberInputUnbounded(cur, v) == [ value |-> v, rejected |-> FALSE ]

\* st.number_input with min_value and max_value: a value outside the range
\* is not committed, the input keeps its value and flags the entry.
NumberInput(cur, v) ==
  IF v >= MonthsBackMin /\ v <= MonthsBackMax
    THEN [ value |-> v, rejected |-> FALSE ]
    ELSE [ value |-> cur, rejected |-> TRUE ]

\* --------------------------------------------------------------- values
\* A Python value handed back by a fetch operation: its type and, for a
\* str, its characters.
None == [ kind |-> "none", body |-> << >> ]
Str(s) == [ kind |-> "str", body |-> s ]

Alphabet == { "[", "]", "{", "}", ",", "n", "w", "x" }
\* "n" a digit, "w" a whitespace character, "x" any other character.

Strings(n) == UNION { [ 1..k -> Alphabet ] : k \in 0..n }

NonStrings ==
  { None,
    [ kind |-> "dict", body |-> << >> ], [ kind |-> "dict", body |-> << "k" >> ],
    [ kind |-> "list", body |-> << >> ], [ kind |-> "list", body |-> << "e" >> ],
    [ kind |-> "int", body |-> << "0" >> ], [ kind |-> "int", body |-> << "1" >> ] }

\* Faulty variant of Truthy: `if result is not None`.
TruthyNotNone(v) == v.kind # "none"

\* Python truth value of a returned value.
Truthy(v) ==
  CASE v.kind = "none" -> FALSE
    [] v.kind = "int" -> v.body # << "0" >>
    [] OTHER -> Len(v.body) > 0

ProviderErrors ==
  { [ cls |-> "ValueError", text |-> "invalid ticker" ],
    [ cls |-> "ConnectionError", text |-> "network failure" ] }

NoResponse == [ kind |-> "pending", value |-> None, cls |-> "", text |-> "" ]
Returned(v) == [ kind |-> "return", value |-> v, cls |-> "", text |-> "" ]
Raised(c, t) == [ kind |-> "raise", value |-> None, cls |-> c, text |-> t ]

\* What a fetch operation can do: return a str, return something else, or
\* raise a provider error.
Responses(n) ==
  { Returned(Str(s)) : s \in Strings(n) }
    \cup { Returned(v) : v \in NonStrings }
    \cup { Raised(e.cls, e.text) : e \in ProviderErrors }

\* ------------------------------------------------------------ json.loads
\* A parsed JSON value: a number, an object or an array with its items.
JNum == [ t |-> "num", items |-> << >> ]
JDict == [ t |-> "dict", items |-> << >> ]
JList(xs) == [ t |-> "list", items |-> xs ]

ParseFail == [ ok |-> FALSE, val |-> JNum, next |-> 0 ]
ParseOk(v, i) == [ ok |-> TRUE, val |-> v, next |-> i ]

RECURSIVE SkipWs(_, _)
SkipWs(s, i) == IF i <= Len(s) /\ s[i] = "w" THEN SkipWs(s, i + 1) ELSE i

RECURSIVE SkipDigits(_, _)
SkipDigits(s, i) == IF i <= Len(s) /\ s[i] = "n" THEN SkipDigits(s, i + 1) ELSE i

RECURSIVE ParseValue(_, _)
RECURSIVE ParseElems(_, _, _)

\* One JSON value starting at position i (the decoder's scan_once).
ParseValue(s, i) ==
  IF i > Len(s) THEN ParseFail
  ELSE CASE s[i] = "n" -> ParseOk(JNum, SkipDigits(s, i))
         [] s[i] = "[" ->
              LET j == SkipWs(s, i + 1) IN
                IF j <= Len(s) /\ s[j] = "]" THEN ParseOk(JList(<< >>), j + 1)
                ELSE ParseElems(s, j, << >>)
         [] s[i] = "{" ->
              LET j == SkipWs(s, i + 1) IN
                IF j <= Len(s) /\ s[j] = "}" THEN ParseOk(JDict, j + 1)
                ELSE ParseFail
         [] OTHER -> ParseFail

\* The items of an array, the first starting at position i.
ParseElems(s, i, acc) ==
  LET v == ParseValue(s, i) IN
    IF ~v.ok THEN ParseFail
    ELSE LET j == SkipWs(s, v.next) IN
           IF j <= Len(s) /\ s[j] = "]"
             THEN ParseOk(JList(Append(acc, v.val)), j + 1)
           ELSE IF j <= Len(s) /\ s[j] = ","
             THEN ParseElems(s, SkipWs(s, j + 1), Append(acc, v.val))
           ELSE ParseFail

\* json.loads: skip leading whitespace, decode one value, skip trailing
\* whitespace; anything left over, or no value, is a JSONDecodeError.
json_loads(s) ==
  LET v == ParseValue(s, SkipWs(s, 1)) IN
    IF v.ok /\ SkipWs(s, v.next) = Len(s) + 1 THEN v ELSE ParseFail

\* ------------------------------------------------------------ exceptions
\* The classes raised in this program; all of them derive from Exception.
ExceptionSubclasses ==
  { "AttributeError", "NameError", "RuntimeError", "ValueError",
    "ConnectionError", "JSONDecodeError" }

\* ------------------------------------------------------- result display
Blank ==
  [ success |-> FALSE, warning |-> FALSE, error |-> FALSE, errorText |-> "",
    view |-> "none", csv |-> FALSE, raw |-> FALSE, uncaught |-> FALSE ]

\* Faulty variant of ExceptException: except json.JSONDecodeError only.
ExceptJSONDecodeErrorOnly(sh, cls, text) ==
  IF cls = "JSONDecodeError"
    THEN [ sh EXCEPT !.error = TRUE, !.errorText = text ]
    ELSE [ sh EXCEPT !.uncaught = TRUE ]

\* except Exception as e: st.error(str(e)) on top of what is already shown.
ExceptException(sh, cls, text) ==
  IF cls \in ExceptionSubclasses
    THEN [ sh EXCEPT !.error = TRUE, !.errorText = text ]
    ELSE [ sh EXCEPT !.uncaught = TRUE ]

\* isinstance(result, str) and result.startswith('[') or result.startswith('{')
\* "raise" when the right operand of `or` is evaluated on a value without
\* a startswith that accepts a str.
LooksLikeJson(v) ==
  IF v.kind = "str" /\ Len(v.body) > 0 /\ v.body[1] = "["
    THEN "true"
  ELSE IF v.kind # "str" THEN "raise"
  ELSE IF Len(v.body) > 0 /\ v.body[1] = "{" THEN "true"
  ELSE "false"

\* pd.DataFrame(list): every row of a list of records must be a record.
DataFrame(data) ==
  IF \A i \in DOMAIN data.items : data.items[i].t = "dict" THEN "ok" ELSE "raise"

NoneRaised == [ cls |-> "", text |-> "" ]

\* The inner try block: the view chosen for a non-empty result, or the
\* exception that leaves the block.
FormatResult(v) ==
  LET c == LooksLikeJson(v) IN
    IF c = "raise"
      THEN [ view |-> "none", csv |-> FALSE,
             exc |-> [ cls |-> "AttributeError", text |-> "no attribute startswith" ] ]
    ELSE IF c = "true"
      THEN LET p == json_loads(v.body) IN
             IF ~p.ok
               THEN [ view |-> "text", csv |-> FALSE, exc |-> NoneRaised ]
             ELSE IF p.val.t = "list" /\ Len(p.val.items) > 0
                      /\ p.val.items[1].t = "dict"
               THEN IF DataFrame(p.val) = "ok"
                      THEN [ view |-> "table", csv |-> TRUE, exc |-> NoneRaised ]
                      ELSE [ view |-> "none", csv |-> FALSE,
                             exc |-> [ cls |-> "AttributeError",
                                       text |-> "no attribute keys" ] ]
             ELSE [ view |-> "json", csv |-> FALSE, exc |-> NoneRaised ]
    ELSE [ view |-> "text", csv |-> FALSE, exc |-> NoneRaised ]

\* if result: ... else: st.warning("No data returned")
ShowResult(v) ==
  IF Truthy(v)
    THEN LET f == FormatResult(v)
             sh == [ Blank EXCEPT !.success = TRUE ] IN
           IF f.exc = NoneRaised
             THEN [ sh EXCEPT !.view = f.view, !.csv = f.csv, !.raw = TRUE ]
             ELSE ExceptException(sh, f.exc.cls, f.exc.text)
    ELSE [ Blank EXCEPT !.warning = TRUE ]

\* What the handler shows for what run_async handed back.
Handle(out) ==
  IF out.kind = "return" THEN ShowResult(out.value)
  ELSE ExceptException(Blank, out.cls, out.text)

\* ------------------------------------------------------------- run_async
\* The event loops of the process: how many are open, the state of the
\* thread's current loop, and whether the loop in use can run a coroutine
\* and was created by the call in progress.
NoLoops == [ open |-> 0, current |-> "none", usable |-> FALSE, fresh |-> FALSE ]

\* Faulty variant of run_async_enter: loop = asyncio.get_event_loop(), which
\* hands back the thread's current loop once one has been set.
run_async_enter_reuse(l) ==
  IF l.current = "none"
    THEN [ open |-> l.open + 1, current |-> "open", usable |-> TRUE, fresh |-> TRUE ]
    ELSE [ open |-> l.open, current |-> l.current,
           usable |-> l.current = "open", fresh |-> FALSE ]

\* loop = asyncio.new_event_loop(); asyncio.set_event_loop(loop)
run_async_enter(l) ==
  [ open |-> l.open + 1, current |-> "open", usable |-> TRUE, fresh |-> TRUE ]

\* loop.run_until_complete(coro): the coroutine's return value or exception;
\* a closed loop raises RuntimeError without running it.
run_until_complete(l, r) ==
  IF l.usable THEN r ELSE Raised("RuntimeError", "Event loop is closed")

\* Faulty variant of run_async_exit: loop.close() after the call instead of
\* in a finally clause, so a raise skips it.
run_async_exit_no_finally(l, out) ==
  IF out.kind = "return"
    THEN [ open |-> IF l.current = "open" THEN l.open - 1 ELSE l.open,
           current |-> "closed", usable |-> FALSE, fresh |-> FALSE ]
    ELSE [ open |-> l.open, current |-> l.current, usable |-> l.usable,
           fresh |-> FALSE ]

\* finally: loop.close(), on return and on raise alike.
run_async_exit(l, out) ==
  [ open |-> IF l.current = "open" THEN l.open - 1 ELSE l.open,
    current |-> "closed", usable |-> FALSE, fresh |-> FALSE ]

\* -------------------------------------------------------------- dispatch
NoArgs == [ n \in {} |-> "" ]
NoCall == [ fn |-> "", args |-> NoArgs ]

\* int(months_back) of the int that the number input holds.
int(x) == x

\* Faulty variant of Branch: every branch was pasted from the stock-info one
\* and still calls get_stock_info.
BranchPasted(fn, names, env) ==
  IF names \subseteq DOMAIN env
    THEN [ matched |-> TRUE, exc |-> "",
           call |-> [ fn |-> "get_stock_info",
                      args |-> [ n \in names |-> env[n] ] ] ]
    ELSE [ matched |-> TRUE, exc |-> "NameError", call |-> NoCall ]

\* One branch of the chain: the call fn(names...) read from the script's
\* variables; a name that no widget assigned raises NameError.
Branch(fn, names, env) ==
  IF names \subseteq DOMAIN env
    THEN [ matched |-> TRUE, exc |-> "",
           call |-> [ fn |-> fn,
                      args |-> [ n \in names |->
                                   IF n = "months_back" THEN int(env[n]) ELSE env[n] ] ] ]
    ELSE [ matched |-> TRUE, exc |-> "NameError", call |-> NoCall ]

\* The if/elif chain on selected_tool.
Dispatch(tool, env) ==
  CASE tool = "get_historical_stock_prices" ->
         Branch("get_historical_stock_prices", { "ticker", "period", "interval" }, env)
    [] tool = "get_stock_info" ->
         Branch("get_stock_info", { "ticker" }, env)
    [] tool = "get_yahoo_finance_news" ->
         Branch("get_yahoo_finance_news", { "ticker" }, env)
    [] tool = "get_stock_actions" ->
         Branch("get_stock_actions", { "ticker" }, env)
    [] tool = "get_financial_statement" ->
         Branch("get_financial_statement", { "ticker", "financial_type" }, env)
    [] tool = "get_holder_info" ->
         Branch("get_holder_info", { "ticker", "holder_type" }, env)
    [] tool = "get_option_expiration_dates" ->
         Branch("get_option_expiration_dates", { "ticker" }, env)
    [] tool = "get_option_chain" ->
         Branch("get_option_chain", { "ticker", "expiration_date", "option_type" }, env)
    [] tool = "get_recommendations" ->
         Branch("get_recommendations",
                { "ticker", "recommendation_type", "months_back" }, env)
    [] OTHER -> [ matched |-> FALSE, exc |-> "", call |-> NoCall ]

\* ----------------------------------------------------------------- state
VARIABLES
  selected_tool,  \* the sidebar selectbox
  ticker,         \* the ticker text input
  params,         \* the tool-specific inputs rendered for selected_tool
  rejected,       \* the number input flags an out-of-range entry
  pc,             \* "idle": nothing shown; "fetching": inside run_async;
                  \* "done": the handler's output is on the page
  calls,          \* fetch operations called by the run in progress or shown
  loops,          \* the event loops
  response,       \* what the provider did in this run
  result,         \* the handler's `result`
  shown,          \* what the results column shows
  earlier         \* history: how the invocations before this one ended

vars ==
  << selected_tool, ticker, params, rejected, pc, calls, loops, response,
     result, shown, earlier >>

\* The script's variables when the handler runs.
Env == [ n \in { "ticker" } |-> ticker ] @@ params

Init ==
  /\ selected_tool = tool_options[1]
  /\ ticker = DefaultTicker
  /\ params = ParamWidgets(tool_options[1])
  /\ rejected = FALSE
  /\ pc = "idle"
  /\ calls = << >>
  /\ loops = NoLoops
  /\ response = NoResponse
  /\ result = None
  /\ shown = Blank
  /\ earlier = {}

\* The outcome on the page joins the history when the page is replaced.
Forget ==
  earlier' = IF pc = "done"
               THEN earlier \cup { IF shown.error THEN "failed" ELSE "ok" }
               ELSE earlier

\* A run of the script with execute_button False: the results column is empty.
Rerun ==
  /\ pc' = "idle"
  /\ calls' = << >>
  /\ response' = NoResponse
  /\ result' = None
  /\ shown' = Blank
  /\ rejected' = FALSE
  /\ Forget
  /\ UNCHANGED loops

\* The sidebar selectbox; tool_descriptions[selected_tool] is read on every run.
SelectTool ==
  /\ pc # "fetching"
  /\ \E t \in ToolIds :
       /\ selected_tool' = t
       /\ params' = ParamWidgets(t)
       /\ Rerun
       /\ t \in DOMAIN tool_descriptions
  /\ UNCHANGED ticker

SetTicker ==
  /\ pc # "fetching"
  /\ \E v \in TickerInputs : ticker' = v
  /\ Rerun
  /\ UNCHANGED << selected_tool, params >>

\* One of the selectboxes of the selected tool.
SetChoice ==
  /\ pc # "fetching"
  /\ \E n \in DOMAIN params \cap DOMAIN AllowedChoices :
       \E v \in AllowedChoices[n] : params' = [ params EXCEPT ![n] = v ]
  /\ Rerun
  /\ UNCHANGED << selected_tool, ticker >>

SetExpirationDate ==
  /\ pc # "fetching"
  /\ "expiration_date" \in DOMAIN params
  /\ \E v \in ExpirationDateInputs :
       params' = [ params EXCEPT !["expiration_date"] = v ]
  /\ Rerun
  /\ UNCHANGED << selected_tool, ticker >>

\* The months_back number input: an accepted value reruns the script, a
\* rejected one leaves the page as it is.
SetMonthsBack ==
  /\ pc # "fetching"
  /\ "months_back" \in DOMAIN params
  /\ \E v \in MonthsBackInputs :
       LET w == NumberInput(params["months_back"], v) IN
         IF w.rejected
           THEN /\ rejected' = TRUE
                /\ UNCHANGED << params, pc, calls, loops, response, result, shown,
                                earlier >>
           ELSE /\ params' = [ params EXCEPT !["months_back"] = w.value ]
                /\ Rerun
  /\ UNCHANGED << selected_tool, ticker >>

\* The execute button, up to the point where run_async waits for the fetch
\* operation: result = None, the dispatch chain, a new event loop.  A branch
\* that raises, or no branch at all, ends the handler at once.
Execute ==
  /\ pc # "fetching"
  /\ LET d == Dispatch(selected_tool, Env) IN
       IF d.matched /\ d.exc = ""
         THEN /\ pc' = "fetching"
              /\ calls' = << d.call >>
              /\ loops' = run_async_enter(loops)
              /\ shown' = Blank
         ELSE /\ pc' = "done"
              /\ calls' = << >>
              /\ loops' = loops
              /\ shown' = IF d.matched THEN ExceptException(Blank, d.exc, d.exc)
                          ELSE ShowResult(None)
  /\ response' = NoResponse
  /\ result' = None
  /\ rejected' = FALSE
  /\ Forget
  /\ UNCHANGED << selected_tool, ticker, params >>

\* The fetch operation answers with r: run_async closes its loop and the
\* handler shows the outcome.
Finish(r) ==
  /\ pc = "fetching"
  /\ LET out == run_until_complete(loops, r) IN
       /\ loops' = run_async_exit(loops, out)
       /\ result' = IF out.kind = "return" THEN out.value ELSE None
       /\ shown' = Handle(out)
  /\ response' = r
  /\ pc' = "done"
  /\ UNCHANGED << selected_tool, ticker, params, rejected, calls, earlier >>

\* Longer payloads that Spec also tries: an array of one record, an object,
\* an array, a record followed by a number, a number after whitespace.
SamplePayloads ==
  { << "[", "{", "}", "]" >>, << "{", "}" >>, << "[", "]" >>,
    << "[", "{", "}", ",", "n", "]" >>, << "w", "n" >> }

\* The provider's answers enumerated by Spec and by PayloadSpec.
SpecResponses == Responses(MaxLen) \cup { Returned(Str(s)) : s \in SamplePayloads }
PayloadResponses == Responses(MaxPayloadLen)

Respond == pc = "fetching" /\ \E r \in SpecResponses : Finish(r)

Next ==
  \/ SelectTool
  \/ SetTicker
  \/ SetChoice
  \/ SetExpirationDate
  \/ SetMonthsBack
  \/ Execute
  \/ Respond

Spec == Init /\ [][Next]_vars

\* The page with the default tool and inputs, over the longer payloads.
RespondPayload == pc = "fetching" /\ \E r \in PayloadResponses : Finish(r)

PayloadNext == Execute \/ RespondPayload

PayloadSpec == Init /\ [][PayloadNext]_vars

\* ======================================================================
\* Properties
\* ======================================================================

ReferenceClass(v) ==
  LET p == json_loads(v.body) IN
    IF ~p.ok THEN "text"
    ELSE IF p.val.t = "list" /\ Len(p.val.items) > 0
            /\ \A i \in DOMAIN p.val.items : p.val.items[i].t = "dict"
      THEN "table"
    ELSE "json"

\* C2: every returned payload is classified as the reference says: tabular
\* for a JSON non-empty array of records, structured for any other JSON
\* value, text for anything that does not parse.
C2_ClassificationMatchesReference ==
  ( pc = "done" /\ response.kind = "return" /\ response.value.kind = "str"
    /\ Truthy(response.value) )
    => shown.view = ReferenceClass(response.value)

\* C3: an execute calls the fetch operation of the selected tool exactly
\* once and no other; when that call raises, the error is caught and shown
\* with its original text and without the success message.
C3_OneCallAndFailure ==
  /\ Len(calls) <= 1
  /\ pc = "fetching" => Len(calls) = 1
  /\ pc = "done" => Len(calls) = 1
  /\ \A i \in DOMAIN calls : calls[i].fn = selected_tool
  /\ ( pc = "done" /\ response.kind = "raise" )
       => /\ shown.error
          /\ shown.errorText = response.text
          /\ ~shown.success
          /\ ~shown.uncaught

C3_Witness ==
  /\ pc = "done"
  /\ response = Raised("ConnectionError", "network failure")
  /\ selected_tool = "get_holder_info"
  /\ calls # << >>
  /\ shown.error

\* C4: with an empty ticker the invocation ends in a validation error and
\* the fetch operation is never called.
C4_EmptyTickerNeverFetched ==
  ticker = "" => calls = << >> /\ pc # "fetching"

\* The arguments of every call, and the value the number input holds, are
\* within their declared constraints.
C5_BoundsInv ==
  /\ \A i \in DOMAIN calls :
       /\ "months_back" \in DOMAIN calls[i].args
            => /\ calls[i].args["months_back"] >= MonthsBackMin
               /\ calls[i].args["months_back"] <= MonthsBackMax
       /\ \A n \in DOMAIN calls[i].args \cap DOMAIN AllowedChoices :
            calls[i].args[n] \in AllowedChoices[n]
  /\ "months_back" \in DOMAIN params
       => params["months_back"] \in MonthsBackMin..MonthsBackMax

\* C5: no fetch operation is called with months_back outside 1..60 or with
\* a choice outside its allowed set, and an out-of-range months_back entry
\* is flagged by the input without a call and without changing any input.
C5_ParametersWithinConstraints ==
  /\ [] C5_BoundsInv
  /\ [][ ( rejected' /\ ~rejected )
           => ( calls' = calls /\ params' = params /\ pc' = pc /\ pc # "fetching" ) ]_vars

C5_Witness ==
  /\ pc = "done"
  /\ selected_tool = "get_recommendations"
  /\ calls # << >>
  /\ calls[1].args["months_back"] = MonthsBackMax
  /\ calls[1].args["recommendation_type"] = "upgrades_downgrades"

\* C6: every registered tool has a description and a dispatch branch that
\* calls its own fetch operation, and the parameters collected for the
\* selected tool are exactly the ones its branch passes; an execute never
\* leaves the result unset for want of a branch.
C6_RegistryMatchesDispatch ==
  /\ \A t \in ToolIds :
       /\ t \in DOMAIN tool_descriptions
       /\ LET e == [ n \in { "ticker" } |-> DefaultTicker ] @@ ParamWidgets(t)
              d == Dispatch(t, e) IN
            /\ d.matched
            /\ d.exc = ""
            /\ d.call.fn = t
            /\ DOMAIN d.call.args = DOMAIN e
  /\ selected_tool \in ToolIds
  /\ pc \in { "fetching", "done" }
       => /\ Len(calls) = 1
          /\ calls[1].fn = selected_tool
          /\ DOMAIN calls[1].args = { "ticker" } \cup DOMAIN params
          /\ \A n \in DOMAIN calls[1].args : calls[1].args[n] = Env[n]

C6_Witness ==
  /\ pc = "done"
  /\ selected_tool = "get_option_chain"
  /\ calls # << >>
  /\ calls[1].args["option_type"] = "puts"
  /\ shown.success

\* C7: an invocation never reports both outcomes: once the success message
\* is shown, no error message is shown for the same invocation.
C7_NeverSuccessAndError ==
  pc = "done" => ~( shown.success /\ shown.error )

\* C8: run_async opens a new event loop for each call and closes it on
\* every exit path: at most one loop is ever open, it is open only while
\* the fetch operation runs, and none is left open afterwards.
C8_LoopClosedOnEveryPath ==
  /\ loops.open <= 1
  /\ pc = "fetching"
       => loops.open = 1 /\ loops.current = "open" /\ loops.fresh /\ loops.usable
  /\ pc # "fetching" => loops.open = 0 /\ loops.current # "open"
  /\ pc = "done" => loops.current = "closed"

C8_Witness ==
  /\ pc = "done"
  /\ response.kind = "raise"
  /\ "failed" \in earlier
  /\ loops.open = 0

\* C9: the outcome of an invocation is a function of its own tool,
\* parameters and provider response, whatever the earlier invocations
\* were, and after any outcome the next execute can be performed.
C9_Independent ==
  pc = "done"
    => /\ response.kind # "pending"
       /\ shown = Handle(response)
       /\ result = ( IF response.kind = "return" THEN response.value ELSE None )
       /\ calls = << Dispatch(selected_tool, Env).call >>
       /\ ENABLED Execute

C9_Witness ==
  /\ pc = "done"
  /\ earlier = { "ok", "failed" }
  /\ shown.success
  /\ shown.view = "json"

\* An empty result: None or the empty string.
EmptyResult(v) == v = None \/ v = Str(<< >>)

\* C10: an empty result that was returned without raising shows the
\* warning and nothing else; the raw view appears only for a non-empty
\* result, and the CSV export only next to the table.

C10_EmptyResultOnlyWarns ==
  /\ ( pc = "done" /\ response.kind = "return" /\ EmptyResult(response.value) )
       => shown = [ Blank EXCEPT !.warning = TRUE ]
  /\ shown.raw => ~EmptyResult(result) /\ shown.success /\ ~shown.error
  /\ shown.csv => shown.view = "table" /\ shown.raw
  /\ shown.view = "table" => shown.csv

C10_Witness ==
  pc = "done" /\ response = Returned(Str(<< >>)) /\ shown.warning /\ ~shown.raw

====
